---------------------------- MODULE Spec2Model ----------------------------
(***************************************************************************)
(* A model of the chainsaw text-scanning engine (src/src/text_parser.rs,   *)
(* src/src/error.rs): the cursor, its selection, the sticky error, the     *)
(* bounded class scan, the literal matchers, capture, select, repeat and   *)
(* the collection loops.                                                   *)
(*                                                                         *)
(* Text is a sequence of characters; a character is a one-character string *)
(* with a byte width (ByteLen), because the code mixes byte indexes        *)
(* (match_indices, slicing, str::len) with character counts                *)
(* (chars().count()).  Option<T> is the empty tuple (None) or the          *)
(* one-element tuple <<x>> (Some(x)).  Result<T, E> is a record with tag   *)
(* "Ok" or "Err"; a call that would abort has tag "Panic".  The `context`  *)
(* field of Cursor is "" from construction on and is never assigned.       *)
(***************************************************************************)
EXTENDS Integers, Sequences, FiniteSets, TLC

VARIABLES
    buf,      \* the text buffer the chain was started on
    c,        \* the cursor threaded through the chain
    list,     \* the external collection append_last / parse_struct_vec_to extend
    pc,       \* "chain", "repeat", "vec" (inside a loop) or "done"
    loop,     \* the frame of the running loop (repeat, parse_struct_vec[_to])
    out,      \* the Result surfaced to the caller by the last extraction step
    lastop,   \* history: the name of the last operation applied; "skipped" for a
              \* matching or capture combinator applied to a cursor in error
    arg,      \* history: the argument of the class matcher applied (SpecScan)
    sub,      \* history: what the last run of a sub-parser returned (None: not run)
    win,      \* history: "none", "open" (after selection_start), "closed" (after selection_end)
    consumed, \* history: the text the matchers consumed since the last selection_start
    vals      \* the values accumulated next to the cursor: the chain runs on the
              \* tuple (c, vals[1], .., vals[n]), on the bare cursor when n = 0

vars == <<buf, c, list, pc, loop, out, lastop, arg, sub, win, consumed, vals>>

-----------------------------------------------------------------------------
(* Bounds of the model *)

\* longest text buffer
MaxLen == 2
\* longest external collection / collected vector
MaxList == 1
\* most iterations of a loop that the model follows
MaxIter == 4
\* longest text a single class matcher is applied to (SpecScan)
MaxScanLen == 3
\* longest text buffer of the collection loops (SpecVec)
MaxVecLen == 3
\* longest text buffer repeat is called on (SpecRepeat)
MaxRepLen == 3

-----------------------------------------------------------------------------
(* Characters and text *)

\* "e'" stands for a two-byte alphabetic character (U+00E9), the others are ASCII
ByteLenChar(ch) == IF ch = "e'" THEN 2 ELSE 1

is_ascii_digit(ch) == ch \in {"0", "1", "2", "3", "4", "5"}
is_alphabetic(ch) == ch \in {"a", "b", "c", "X", "Y", "e'"}
is_alphanumeric(ch) == is_alphabetic(ch) \/ is_ascii_digit(ch)
is_whitespace(ch) == ch \in {" ", "\t", "\n", "\r"}

RECURSIVE TextsUpTo(_, _)
TextsUpTo(chars, n) ==
    IF n = 0 THEN {<<>>}
    ELSE LET shorter == TextsUpTo(chars, n - 1)
         IN  shorter \cup {<<ch>> \o t : ch \in chars, t \in {u \in shorter : Len(u) = n - 1}}

RECURSIVE ByteLen(_)
ByteLen(s) == IF s = <<>> THEN 0 ELSE ByteLenChar(Head(s)) + ByteLen(Tail(s))

CharCount(s) == Len(s)

DropChars(s, k) == SubSeq(s, k + 1, Len(s))
TakeChars(s, k) == SubSeq(s, 1, k)

starts_with(s, w) == Len(w) <= Len(s) /\ TakeChars(s, Len(w)) = w

None == <<>>
Some(x) == <<x>>

\* the number of leading characters of s that are not in stop
RECURSIVE RunLen(_, _)
RunLen(s, stop) ==
    IF s = <<>> \/ Head(s) \in stop THEN 0 ELSE 1 + RunLen(Tail(s), stop)


-----------------------------------------------------------------------------
(* error.rs: ParseError *)

NoMatch(action, args) ==
    [tag |-> "NoMatch", action |-> action, args |-> args, cause |-> "none"]

\* Fatal(Option<Box<dyn Error>>): cause is "none" for Fatal(None)
Fatal(cause) == [tag |-> "Fatal", action |-> "", args |-> "", cause |-> cause]

is_recoverable(e) == e.tag = "NoMatch"

\* impl Clone for ParseError: the boxed cause of a Fatal is not cloned
CloneError(e) == IF e.tag = "Fatal" THEN Fatal("none") ELSE NoMatch(e.action, e.args)

\* failure(action, _args): the args are dropped
failure(action, args) == NoMatch(action, "")

Ok(v) == [tag |-> "Ok", v |-> v]
Err(e) == [tag |-> "Err", e |-> e]
Panic == [tag |-> "Panic"]

-----------------------------------------------------------------------------
(* Selection (crate::selection, whose source is not part of src/).  What the
   cursor calls of it is modelled from the description of the selection state
   machine, and from the behaviour the tests of text_parser.rs fix:
   test_parse_from_str and the repeat of test_parse_lists read, with no window
   opened, the text of the last match only ("42X45Y" gives 42 and 45), and the
   first loop of test_parse_lists reads "1" after selection_end() and
   text_alt(), so an end that is set stays where selection_end() put it. *)

\* Defaulted(s): no window; s is where the last match began (the buffer at first),
\* e where it ended once there was a match
Defaulted(s) == [kind |-> "Defaulted", s |-> s, e |-> None]
Start(s, e) == [kind |-> "Start", s |-> s, e |-> e]

\* Selection::start: the begin reference
SelStart(sel) == sel.s

\* Selection::move_cursor: a window keeps its begin reference and its end, set or
\* unset; with no window the capture becomes the text of this match
move_cursor(sel, s) ==
    IF sel.kind = "Start" THEN sel
    ELSE [kind |-> "Defaulted", s |-> IF sel.e = None THEN sel.s ELSE sel.e[1],
          e |-> Some(s)]

\* Selection::selection: the (begin, end) pair of the capture
selection(sel, cur) ==
    IF sel.kind = "Start" /\ sel.e # None THEN <<sel.s, sel.e[1]>> ELSE <<sel.s, cur>>

-----------------------------------------------------------------------------
(* Cursor *)

Cursor(sel, cur, err) == [selection |-> sel, cur |-> cur, err |-> err]

\* impl From<&str> for Cursor
cursor(s) == Cursor(Defaulted(s), Some(s), None)

\* derive(Clone) on Cursor: the error is cloned with ParseError::clone
CloneCursor(cur) ==
    Cursor(cur.selection, cur.cur,
           IF cur.err = None THEN None ELSE Some(CloneError(cur.err[1])))

\* Option<&str>::str
OptStr(o) == IF o = None THEN Err(failure("str on erroring cursor", "")) ELSE Ok(o[1])

\* Cursor::str
str(cur) == OptStr(cur.cur)

\* cur.str().unwrap_or_default()
Txt(cur) == IF cur.cur = None THEN <<>> ELSE cur.cur[1]

\* variant: set_str starting the selection afresh at the new text
set_str_dropping_window(cur, s) == Cursor(Defaulted(s), Some(s), cur.err)

\* Cursor::set_str
set_str(cur, s) == Cursor(move_cursor(cur.selection, s), Some(s), cur.err)

\* set_error as it would be if it left the remaining text in place
set_error_keeping_text(cur, e) == Cursor(cur.selection, cur.cur, Some(e))

\* Cursor::set_error
set_error(cur, e) == Cursor(cur.selection, None, Some(e))

\* validate as it would be if it reported the missing text in place of the
\* stored error, as Option<&str>::validate does
validate_reporting_str(cur) ==
    IF cur.cur # None THEN Ok(cur) ELSE Err(failure("str on erroring cursor", ""))

\* Cursor::validate
validate(cur) == IF cur.err = None THEN Ok(cur) ELSE Err(cur.err[1])

\* the accumulated tuple (Cursor, T1, .., Tn), n >= 1
Tuple(cur, ts) == [c |-> cur, vals |-> ts]

\* Result::map(|c| (c, self.1, ..)) in validate of the tuples
map_tuple(r, ts) == IF r.tag = "Ok" THEN Ok(Tuple(r.v, ts)) ELSE r

\* validate of the value the chain runs on: Cursor::validate, or validate of
\* the tuple (Cursor, T1, .., Tn)
tuple_validate(cur, ts) == IF ts = <<>> THEN validate(cur) ELSE map_tuple(validate(cur), ts)

-----------------------------------------------------------------------------
(* Ranges: RangeBounds<i32> *)

I32Max == 2147483647

Included(i) == [b |-> "Included", v |-> i]
Excluded(i) == [b |-> "Excluded", v |-> i]
Unbounded == [b |-> "Unbounded", v |-> 0]
Range(lo, hi) == [lo |-> lo, hi |-> hi]

\* start_end: Option<i32> for each end of the range
start_end(rb) ==
    << CASE rb.lo.b = "Included" -> Some(rb.lo.v)
         [] rb.lo.b = "Excluded" -> Some(rb.lo.v + 1)
         [] OTHER -> None,
       CASE rb.hi.b = "Included" -> Some(rb.hi.v)
         [] rb.hi.b = "Excluded" -> Some(rb.hi.v - 1)
         [] OTHER -> None >>

\* `as usize` on an i32 sign-extends: a negative value becomes 2^64 + i, which is
\* above every text length and every non-negative i32; it is represented by the
\* greatest integer of the model
AsUsize(i) == IF i < 0 THEN I32Max ELSE i

\* start.unwrap_or_default() as usize
StartBound(rb) ==
    LET start == start_end(rb)[1] IN AsUsize(IF start = None THEN 0 ELSE start[1])

\* end.unwrap_or(i32::MAX) as usize
EndBound(rb) ==
    LET end == start_end(rb)[2] IN AsUsize(IF end = None THEN I32Max ELSE end[1])

\* the test of the found branch as it would be with the upper bound held strictly
FoundInBoundsStrict(i, start, end) == i >= start /\ i <= end

\* the test of the branch where a stop character is found at byte index i:
\* i >= start && i <= end + 1 (end <= i32::MAX, so end + 1 does not wrap in usize;
\* written i - 1 <= end to stay within the integers of the checker)
FoundInBounds(i, start, end) == i >= start /\ i - 1 <= end

\* the test of the branch where no stop character is found
ExhaustedInBounds(len, start, end) == len >= start /\ len <= end

\* find_first: the bounded class scan; stop is the set of characters pred accepts
find_first(cur, rb, stop, action) ==
    IF str(cur).tag # "Ok" THEN cur
    ELSE
      LET s == str(cur).v
          end0 == start_end(rb)[2]
      IN  IF end0 # None /\ end0[1] < 0 THEN set_error(cur, NoMatch(action, ""))
          ELSE
            LET start == StartBound(rb)
                end == EndBound(rb)
                k == RunLen(s, stop)
            IN  IF k < Len(s)
                THEN \* match_indices(pred).nth(0) = Some((i, _))
                     LET i == ByteLen(TakeChars(s, k))
                     IN  IF FoundInBounds(i, start, end)
                         THEN set_str(cur, DropChars(s, k))
                         ELSE set_error(cur, failure(action, ""))
                ELSE LET len == CharCount(s)
                     IN  IF ExhaustedInBounds(len, start, end)
                         THEN set_str(cur, <<>>)
                         ELSE set_error(cur, failure(action, ""))

\* apply as it would be without the test of the error state
apply_unguarded(cur, fs, msg) ==
    IF fs # None THEN set_str(cur, fs[1]) ELSE set_error(cur, failure(msg, Txt(cur)))

\* apply: fs is f(s), the outcome of the prefix transform on the remaining text
apply(cur, fs, msg) ==
    IF str(cur).tag = "Ok"
    THEN IF fs # None THEN set_str(cur, fs[1])
         ELSE set_error(cur, failure(msg, str(cur).v))
    ELSE cur

-----------------------------------------------------------------------------
(* Matchable: the class matchers, all on find_first *)

\* every character of the model
Chars ==
    {"0", "1", "2", "3", "4", "5", "a", "b", "c", "X", "Y", "e'", ",", ".", "-", ":", "{", "}",
     " ", "\t", "\n", "\r"}

digits(cur, rb) ==
    find_first(cur, rb, {ch \in Chars : ~is_ascii_digit(ch)}, "digits_m")

alphabetics(cur, rb) ==
    find_first(cur, rb, {ch \in Chars : ~is_alphabetic(ch)}, "alpha_many")

alphanumerics(cur, rb) ==
    find_first(cur, rb, {ch \in Chars : ~is_alphanumeric(ch)}, "alpha_many")

chars_in(cur, rb, chars) ==
    find_first(cur, rb, {ch \in Chars : ~(ch \in chars)}, "chars_in")

chars_not_in(cur, rb, chars) ==
    find_first(cur, rb, {ch \in Chars : ch \in chars}, "chars_not_in")

\* pred is the set of characters the caller's predicate accepts
chars_match(cur, rb, pred) ==
    find_first(cur, rb, {ch \in Chars : ~(ch \in pred)}, "chars_match")

-----------------------------------------------------------------------------
(* Matchable: the literal and structural matchers, all on apply *)

\* str::strip_prefix
strip_prefix(s, w) == IF starts_with(s, w) THEN Some(DropChars(s, Len(w))) ELSE None

\* str::trim_start_matches(|c| c in class)
trim_start_matches(s, class) == DropChars(s, RunLen(s, Chars \ class))

\* str::find: the number of characters before the first occurrence of needle
RECURSIVE str_find(_, _)
str_find(s, needle) ==
    IF starts_with(s, needle) THEN Some(0)
    ELSE IF s = <<>> THEN None
    ELSE LET r == str_find(Tail(s), needle)
         IN  IF r = None THEN None ELSE Some(r[1] + 1)

noop(cur) == apply(cur, Some(Txt(cur)), "noop")

ws(cur) ==
    apply(cur, Some(trim_start_matches(Txt(cur), {ch \in Chars : is_whitespace(ch)})), "ws")

non_ws(cur) ==
    apply(cur, Some(trim_start_matches(Txt(cur), {ch \in Chars : ~is_whitespace(ch)})),
          "non_ws")

hws(cur) ==
    apply(cur,
          Some(trim_start_matches(Txt(cur),
                 {ch \in Chars : is_whitespace(ch) /\ ch # "\n" /\ ch # "\r"})),
          "hws")

\* variant: text() dropping as many characters as the word has, whatever they are
text_dropping_len(cur, word) == apply(cur, Some(DropChars(Txt(cur), Len(word))), "text")

text(cur, word) == apply(cur, strip_prefix(Txt(cur), word), "text")

\* variant: maybe() without the fallback to the unchanged text
maybe_requiring_word(cur, word) == apply(cur, strip_prefix(Txt(cur), word), "maybe")

maybe(cur, word) ==
    apply(cur,
          IF strip_prefix(Txt(cur), word) # None THEN strip_prefix(Txt(cur), word)
          ELSE Some(Txt(cur)),
          "maybe")

\* variant: the longest word of the list that is a prefix
longest_alt(s, words) ==
    LET hits == {i \in 1..Len(words) : starts_with(s, words[i])}
    IN  IF hits = {} THEN None
        ELSE strip_prefix(s, words[CHOOSE i \in hits :
                                     \A j \in hits : Len(words[j]) <= Len(words[i])])

\* the closure of text_alt: the first word, in order, that is a prefix
RECURSIVE first_alt(_, _)
first_alt(s, words) ==
    IF words = <<>> THEN None
    ELSE IF starts_with(s, Head(words)) THEN strip_prefix(s, Head(words))
    ELSE first_alt(s, Tail(words))

text_alt(cur, words) == apply(cur, first_alt(Txt(cur), words), "text_alt")

text_eos(cur) == apply(cur, IF Txt(cur) = <<>> THEN Some(Txt(cur)) ELSE None, "eos")

text_eol(cur) ==
    apply(cur,
          IF Txt(cur) = <<>> THEN Some(Txt(cur))
          ELSE IF strip_prefix(Txt(cur), <<"\r", "\n">>) # None
               THEN strip_prefix(Txt(cur), <<"\r", "\n">>)
               ELSE strip_prefix(Txt(cur), <<"\n">>),
          "eol")

\* variant: find() landing just after the needle
find_after_needle(cur, needle) ==
    LET i == str_find(Txt(cur), needle)
    IN  apply(cur,
              IF i = None THEN None ELSE Some(DropChars(Txt(cur), i[1] + Len(needle))),
              "find")

find(cur, needle) ==
    LET i == str_find(Txt(cur), needle)
    IN  apply(cur, IF i = None THEN None ELSE Some(DropChars(Txt(cur), i[1])), "find")

\* variant: scan_text() stopping at the start of the needle
scan_text_to_needle(cur, needle) ==
    LET i == str_find(Txt(cur), needle)
    IN  apply(cur, IF i = None THEN None ELSE Some(DropChars(Txt(cur), i[1])), "scan")

scan_text(cur, needle) ==
    LET i == str_find(Txt(cur), needle)
    IN  apply(cur,
              IF i = None THEN None ELSE Some(DropChars(Txt(cur), i[1] + Len(needle))),
              "scan")

\* variant: scan_eol falling back on the constant "\n" when no line ends
scan_eol_or_newline(cur) ==
    LET i == str_find(Txt(cur), <<"\n">>)
    IN  apply(cur, IF i = None THEN Some(<<"\n">>) ELSE Some(DropChars(Txt(cur), i[1] + 1)),
              "scan_eol")

scan_eol(cur) ==
    LET i == str_find(Txt(cur), <<"\n">>)
    IN  apply(cur, IF i = None THEN Some(<<>>) ELSE Some(DropChars(Txt(cur), i[1] + 1)),
              "scan_eol")

word(cur) ==
    apply(cur,
          Some(trim_start_matches(Txt(cur),
                 {ch \in Chars : is_alphanumeric(ch) \/ is_ascii_digit(ch) \/ ch = "-"})),
          "word")

-----------------------------------------------------------------------------
(* Selectable for Cursor *)

\* &s[..n] for a byte count n: aborts when n is beyond s or inside a character
RECURSIVE TakeBytes(_, _)
TakeBytes(s, n) ==
    IF n = 0 THEN Ok(<<>>)
    ELSE IF s = <<>> \/ ByteLenChar(Head(s)) > n THEN Panic
    ELSE LET r == TakeBytes(Tail(s), n - ByteLenChar(Head(s)))
         IN  IF r.tag = "Ok" THEN Ok(<<Head(s)>> \o r.v) ELSE Panic

\* variant: get_selection returning the begin reference whole
get_selection_of_begin(cur) ==
    IF cur.cur # None THEN Ok(selection(cur.selection, cur.cur[1])[1])
    ELSE IF cur.err = None THEN Panic
    ELSE Err(CloneCursor(cur).err[1])

\* variant: get_selection reporting the missing text as Option<&str>::str does
get_selection_reporting_str(cur) ==
    IF cur.cur # None
    THEN LET se == selection(cur.selection, cur.cur[1])
         IN  IF ByteLen(se[1]) < ByteLen(se[2]) THEN Panic
             ELSE TakeBytes(se[1], ByteLen(se[1]) - ByteLen(se[2]))
    ELSE OptStr(cur.cur)

\* Cursor::get_selection
get_selection(cur) ==
    IF cur.cur # None
    THEN LET se == selection(cur.selection, cur.cur[1])
         IN  IF ByteLen(se[1]) < ByteLen(se[2]) THEN Panic
             ELSE TakeBytes(se[1], ByteLen(se[1]) - ByteLen(se[2]))
    ELSE IF cur.err = None THEN Panic
    ELSE Err(CloneCursor(cur).err[1])

\* selection_start as it would be if it kept the begin reference it finds
selection_start_keeping_begin(cur) ==
    IF cur.cur # None THEN Cursor(Start(SelStart(cur.selection), None), cur.cur, cur.err)
    ELSE cur

\* Cursor::selection_start
selection_start(cur) ==
    IF cur.cur # None THEN Cursor(Start(cur.cur[1], None), cur.cur, cur.err) ELSE cur

\* variant: selection_end() storing no end
selection_end_leaving_open(cur) == cur

\* Cursor::selection_end
selection_end(cur) ==
    IF cur.cur # None THEN Cursor(Start(SelStart(cur.selection), cur.cur), cur.cur, cur.err)
    ELSE cur

-----------------------------------------------------------------------------
(* FromStr: the conversions parse_selection and append_last use *)

DigitVal(ch) ==
    CASE ch = "0" -> 0 [] ch = "1" -> 1 [] ch = "2" -> 2 [] ch = "3" -> 3 [] ch = "4" -> 4
      [] OTHER -> 5

RECURSIVE DigitsVal(_, _)
DigitsVal(s, acc) == IF s = <<>> THEN acc ELSE DigitsVal(Tail(s), 10 * acc + DigitVal(Head(s)))

IntVal(n) == [t |-> "int", v |-> n]
StrVal(s) == [t |-> "str", v |-> s]

\* T::from_str for T = i32 ("int") and T = String ("str"); the texts of the model
\* carry no sign and stay far below i32::MAX
from_str(ty, txt) ==
    IF ty = "str" THEN Ok(StrVal(txt))
    ELSE IF txt # <<>> /\ \A k \in 1..Len(txt) : is_ascii_digit(txt[k])
         THEN Ok(IntVal(DigitsVal(txt, 0)))
         ELSE Err(NoMatch("parse int error", ""))

-----------------------------------------------------------------------------
(* Sub-parsers: the closures handed to select, repeat and the collection   *)
(* loops.  A closure FnMut(Self) -> Self is a sequence of steps, each a    *)
(* call [op, x] of a method on the cursor it is given; the collection the  *)
(* closure borrows (&mut vec) is threaded beside the cursor.               *)

Step(op, x) == [op |-> op, x |-> x]

\* the cursor and the borrowed collection after some steps; panic: the call aborted
St(cur, vec) == [c |-> cur, list |-> vec, panic |-> FALSE]
Aborted(cur, vec) == [c |-> cur, list |-> vec, panic |-> TRUE]

\* variant: append_last putting the value in front of the collection
append_last_in_front(cur, vec, ty) ==
    LET sel == get_selection(cur)
    IN  CASE sel.tag = "Panic" -> Aborted(cur, vec)
          [] sel.tag = "Ok" ->
               IF from_str(ty, sel.v).tag = "Ok"
               THEN St(cur, <<from_str(ty, sel.v).v>> \o vec)
               ELSE St(set_error(cur, NoMatch("", "")), vec)
          [] OTHER -> St(cur, vec)

\* Selectable::append_last::<_, T>, T named by ty
append_last(cur, vec, ty) ==
    LET sel == get_selection(cur)
    IN  CASE sel.tag = "Panic" -> Aborted(cur, vec)
          [] sel.tag = "Ok" ->
               IF from_str(ty, sel.v).tag = "Ok"
               THEN St(cur, Append(vec, from_str(ty, sel.v).v))
               ELSE St(set_error(cur, NoMatch("", "")), vec)
          [] OTHER -> St(cur, vec)

\* the tail of Selectable::select, after the sub-parser returned t
select_close(self, t) ==
    IF str(t).tag = "Ok"
    THEN selection_end(set_str(t, str(t).v))
    ELSE set_error(t, failure("select_with", str(self).v))

\* a closure that stores the error x.e when the remaining text starts with x.w:
\* |c| match c.str() { Ok(s) if s.starts_with(w) => c.set_error(e), _ => c }
set_error_if(cur, w, e) ==
    IF str(cur).tag = "Ok" /\ starts_with(str(cur).v, w) THEN set_error(cur, e) ELSE cur

\* one method call of a chain, select apart
ApplySimple(st, cur, vec) ==
    CASE st.op = "digits" -> St(digits(cur, st.x), vec)
      [] st.op = "alphabetics" -> St(alphabetics(cur, st.x), vec)
      [] st.op = "alphanumerics" -> St(alphanumerics(cur, st.x), vec)
      [] st.op = "chars_in" -> St(chars_in(cur, st.x.rb, st.x.chars), vec)
      [] st.op = "chars_not_in" -> St(chars_not_in(cur, st.x.rb, st.x.chars), vec)
      [] st.op = "chars_match" -> St(chars_match(cur, st.x.rb, st.x.chars), vec)
      [] st.op = "text" -> St(text(cur, st.x), vec)
      [] st.op = "maybe" -> St(maybe(cur, st.x), vec)
      [] st.op = "text_alt" -> St(text_alt(cur, st.x), vec)
      [] st.op = "text_eos" -> St(text_eos(cur), vec)
      [] st.op = "text_eol" -> St(text_eol(cur), vec)
      [] st.op = "find" -> St(find(cur, st.x), vec)
      [] st.op = "scan_text" -> St(scan_text(cur, st.x), vec)
      [] st.op = "scan_eol" -> St(scan_eol(cur), vec)
      [] st.op = "ws" -> St(ws(cur), vec)
      [] st.op = "hws" -> St(hws(cur), vec)
      [] st.op = "non_ws" -> St(non_ws(cur), vec)
      [] st.op = "word" -> St(word(cur), vec)
      [] st.op = "noop" -> St(noop(cur), vec)
      [] st.op = "selection_start" -> St(selection_start(cur), vec)
      [] st.op = "selection_end" -> St(selection_end(cur), vec)
      [] st.op = "append_last" -> append_last(cur, vec, st.x)
      [] st.op = "set_error_if" -> St(set_error_if(cur, st.x.w, st.x.e), vec)
      [] OTHER -> St(cur, vec)

\* the sub-parser of a select, |c| c.step1().step2()..., its steps not selects;
\* BodyRest: the calls after the one that returned r
RECURSIVE RunBody(_, _, _)
RECURSIVE BodyRest(_, _)
RunBody(steps, cur, vec) ==
    IF steps = <<>> THEN St(cur, vec)
    ELSE BodyRest(Tail(steps), ApplySimple(Head(steps), cur, vec))

BodyRest(rest, r) == IF r.panic THEN r ELSE RunBody(rest, r.c, r.list)

\* Selectable::select after its sub-parser returned t
select_tail(self, t) == IF t.panic THEN t ELSE St(select_close(self, t.c), t.list)

\* Selectable::select with the sub-parser body
select(cur, body, vec) ==
    IF str(cur).tag = "Ok"
    THEN select_tail(cur, RunBody(body, selection_start(cur), vec))
    ELSE St(cur, vec)

\* the cursor the sub-parser of select returns, if select calls it
select_sub(cur, body, vec) ==
    IF str(cur).tag = "Ok" THEN Some(RunBody(body, selection_start(cur), vec).c) ELSE None

\* one method call of a chain
ApplyStep(st, cur, vec) ==
    IF st.op = "select" THEN select(cur, st.x, vec) ELSE ApplySimple(st, cur, vec)

\* the closure |c| c.step1().step2()...; StepsRest: the calls after the one
\* that returned r
RECURSIVE RunSteps(_, _, _)
RECURSIVE StepsRest(_, _)
RunSteps(steps, cur, vec) ==
    IF steps = <<>> THEN St(cur, vec)
    ELSE StepsRest(Tail(steps), ApplyStep(Head(steps), cur, vec))

StepsRest(rest, r) == IF r.panic THEN r ELSE RunSteps(rest, r.c, r.list)

-----------------------------------------------------------------------------
(* Extraction steps: Result<(Self, T), ParseError> *)

\* Selectable::parse_selection_as_str
parse_selection_as_str(cur) ==
    LET sel == get_selection(cur)
    IN  CASE sel.tag = "Panic" -> Panic
          [] sel.tag = "Err" -> sel
          [] str(cur).tag = "Err" -> str(cur)
          [] OTHER -> Ok([c |-> cur, t |-> StrVal(sel.v)])

\* variant: parse_selection converting the remaining text, not the capture
parse_selection_of_remaining(cur, ty) ==
    CASE str(cur).tag = "Err" -> str(cur)
      [] from_str(ty, Txt(cur)).tag = "Err" -> Err(failure("parse", Txt(cur)))
      [] OTHER -> Ok([c |-> cur, t |-> from_str(ty, Txt(cur)).v])

\* Selectable::parse_selection::<T>, T named by ty
parse_selection(cur, ty) ==
    LET sel == get_selection(cur)
    IN  CASE sel.tag = "Panic" -> Panic
          [] sel.tag = "Err" -> sel
          [] str(cur).tag = "Err" -> str(cur)
          [] from_str(ty, sel.v).tag = "Err" -> Err(failure("parse", sel.v))
          [] OTHER -> Ok([c |-> cur, t |-> from_str(ty, sel.v).v])

\* the extraction named by fin on what the steps of a closure returned
ParserResult(fin, r) ==
    [res |-> CASE r.panic -> Panic
               [] fin = "parse_selection_as_str" -> parse_selection_as_str(r.c)
               [] fin = "parse_selection_int" -> parse_selection(r.c, "int")
               [] fin = "validate_as_str" ->
                    IF validate(r.c).tag = "Err" THEN validate(r.c)
                    ELSE parse_selection_as_str(r.c)
               [] OTHER -> Panic,
     list |-> r.list]

\* a closure FnMut(Self) -> Result<(Self, T), ParseError>: steps, then the
\* extraction named by fin; rs.res is what it returns, rs.list the collection after
RunParser(p, cur, vec) == ParserResult(p.fin, RunSteps(p.steps, cur, vec))

-----------------------------------------------------------------------------
(* The collection loops and repeat, one iteration per step *)

NoLoop == [kind |-> "none", p |-> <<>>, i |-> 0, n |-> 0, self |-> <<>>, str |-> <<>>,
           vec |-> <<>>]

\* repeat: the number of passes start_end(range).1.unwrap_or(i32::MAX)
repeat_count(rb) == LET end == start_end(rb)[2] IN IF end = None THEN I32Max ELSE end[1]

\* the match of repeat as it would be if it returned what the failed pass left
repeat_arm_returning_failed(t, str0) ==
    IF validate(t).tag = "Ok" THEN [k |-> "continue", str |-> validate(t).v]
    ELSE [k |-> "return", str |-> t]

\* repeat: what the loop does with the cursor t the sub-parser returned, str being
\* the loop variable: match (lexer)(str.clone()).validate()
repeat_arm(t, str0) ==
    IF validate(t).tag = "Ok" THEN [k |-> "continue", str |-> validate(t).v]
    ELSE [k |-> "return", str |-> str0]

\* the match of the collection loops as it would be if NoMatch were returned
vec_arm_returning_nomatch(res) ==
    CASE res.tag = "Ok" -> "push"
      [] res.tag = "Err" -> "return_err"
      [] OTHER -> "panic"

\* the match of the collection loops as it would be if Fatal ended the loop as
\* NoMatch does
vec_arm_recovering_fatal(res) ==
    CASE res.tag = "Ok" -> "push"
      [] res.tag = "Err" -> "return_ok"
      [] OTHER -> "panic"

\* parse_struct_vec / parse_struct_vec_to: the match on what the sub-parser returned
vec_arm(res) ==
    CASE res.tag = "Ok" -> "push"
      [] res.tag = "Err" /\ res.e.tag = "NoMatch" -> "return_ok"
      [] res.tag = "Err" /\ res.e.tag = "Fatal" -> "return_err"
      [] OTHER -> "panic"

-----------------------------------------------------------------------------
(* Inputs of the chains *)

\* the characters of the buffers a chain is started on
Alphabet == {"1", ","}

R(lo, hi) == Range(Included(lo), Included(hi))
RFrom(lo) == Range(Included(lo), Unbounded)

ChainRanges == {RFrom(1), R(1, 1), R(0, 1)}
Words == {<<",">>, <<"1">>}
AltLists == {<< <<",">>, <<" ">> >>}
CharSets == {{"1", ","}}
Errors == {Fatal("io"), NoMatch("user", "")}

\* sub-parsers FnMut(Self) -> Self, for select and repeat
Bodies ==
    { << Step("digits", RFrom(1)), Step("append_last", "int"), Step("maybe", <<",">>) >>,
      << Step("digits", RFrom(1)), Step("append_last", "int"), Step("text", <<",">>) >>,
      << Step("set_error_if", [w |-> <<",">>, e |-> Fatal("io")]), Step("digits", R(1, 1)) >>,
      << Step("alphabetics", R(1, 1)),
         Step("select", << Step("digits", R(1, 1)) >>) >>,
      << Step("maybe", <<",">>) >> }

\* sub-parsers of select that open a capture of their own after consuming text
NestedBodies ==
    { << Step("maybe", <<",">>), Step("select", << Step("digits", R(1, 1)) >>) >>,
      << Step("text", <<",">>), Step("selection_start", <<>>), Step("digits", R(1, 1)),
         Step("selection_end", <<>>) >> }

\* sub-parsers FnMut(Self) -> Result<(Self, T), ParseError>, for the collection loops
Parsers ==
    { [steps |-> << Step("selection_start", <<>>), Step("digits", Range(Included(1), Excluded(5))),
                    Step("selection_end", <<>>), Step("text_alt", << <<",">>, <<" ">> >>) >>,
       fin |-> "parse_selection_as_str"],
      [steps |-> << Step("ws", <<>>) >>, fin |-> "parse_selection_int"],
      [steps |-> << Step("set_error_if", [w |-> <<",">>, e |-> Fatal("io")]),
                    Step("select", << Step("digits", R(1, 1)) >>) >>,
       fin |-> "validate_as_str"],
      [steps |-> << Step("set_error_if", [w |-> <<"a">>, e |-> Fatal("io")]),
                    Step("select", << Step("alphanumerics", R(1, 1)) >>),
                    Step("maybe", <<",">>) >>,
       fin |-> "parse_selection_as_str"] }

MatcherOps ==
    {"digits", "alphabetics", "alphanumerics", "chars_in", "chars_not_in", "chars_match",
     "text", "maybe", "text_alt", "text_eos", "text_eol", "find", "scan_text", "scan_eol",
     "ws", "hws", "non_ws", "word", "noop"}

NoResult == [tag |-> "None"]

-----------------------------------------------------------------------------
(* The chain: one action per method call on the cursor *)

Init ==
    /\ buf \in TextsUpTo(Alphabet, MaxLen)
    /\ c = cursor(buf)
    /\ list = <<>>
    /\ pc = "chain"
    /\ loop = NoLoop
    /\ out = NoResult
    /\ lastop = "cursor"
    /\ arg = None
    /\ sub = None
    /\ win = "none"
    /\ consumed = <<>>
    /\ vals = <<>>

\* the text a successful matcher removed from the front of the remaining text
Dropped(before, after) == TakeChars(Txt(before), Len(Txt(before)) - Len(Txt(after)))

\* history of the capture window across the call op that turned cursor c into d
WinAfter(op, d) ==
    CASE op = "selection_start" /\ c.cur # None -> "open"
      [] op = "selection_end" /\ win = "open" /\ c.cur # None -> "closed"
      [] op \in MatcherOps /\ win = "open" /\ d.cur # None -> "open"
      [] OTHER -> "none"

ConsumedAfter(op, d) ==
    IF op \in MatcherOps /\ win = "open" /\ d.cur # None THEN consumed \o Dropped(c, d)
    ELSE IF op = "selection_end" /\ win = "open" /\ c.cur # None THEN consumed
    ELSE <<>>

\* the call c.op(..) of a chain: r is what it returns, s the cursor its sub-parser
\* returned, if it has one
Return(op, r, s) ==
    /\ pc = "chain"
    /\ c' = r.c
    /\ list' = r.list
    /\ pc' = IF r.panic THEN "done" ELSE "chain"
    /\ out' = IF r.panic THEN Panic ELSE NoResult
    /\ win' = WinAfter(op, r.c)
    /\ consumed' = ConsumedAfter(op, r.c)
    /\ sub' = s
    /\ lastop' = IF c.err # None THEN "skipped" ELSE op
    /\ UNCHANGED <<buf, arg, vals>>

\* the same, the collection staying within the bound of the model
ChainStep(op, r, s) == Len(r.list) <= MaxList /\ Return(op, r, s)

Chain(op, r, s) == ChainStep(op, r, s) /\ loop' = NoLoop

\* a call that returns the cursor d and has no sub-parser
Call(op, d) == Chain(op, St(d, list), None)

Digits == \E rb \in ChainRanges : Call("digits", digits(c, rb))
Alphabetics == \E rb \in ChainRanges : Call("alphabetics", alphabetics(c, rb))
Alphanumerics == \E rb \in ChainRanges : Call("alphanumerics", alphanumerics(c, rb))
CharsIn == \E rb \in ChainRanges, cs \in CharSets : Call("chars_in", chars_in(c, rb, cs))
CharsNotIn ==
    \E rb \in ChainRanges, cs \in CharSets : Call("chars_not_in", chars_not_in(c, rb, cs))
CharsMatch ==
    \E rb \in ChainRanges, cs \in CharSets : Call("chars_match", chars_match(c, rb, cs))
Text == \E w \in Words : Call("text", text(c, w))
Maybe == \E w \in Words : Call("maybe", maybe(c, w))
TextAlt == \E ws0 \in AltLists : Call("text_alt", text_alt(c, ws0))
TextEos == Call("text_eos", text_eos(c))
TextEol == Call("text_eol", text_eol(c))
Find == \E w \in Words : Call("find", find(c, w))
ScanText == \E w \in Words : Call("scan_text", scan_text(c, w))
ScanEol == Call("scan_eol", scan_eol(c))
Ws == Call("ws", ws(c))
Hws == Call("hws", hws(c))
NonWs == Call("non_ws", non_ws(c))
Word == Call("word", word(c))
Noop == Call("noop", noop(c))
SelectionStart == Call("selection_start", selection_start(c))
SelectionEnd == Call("selection_end", selection_end(c))
AppendLast == Chain("append_last", append_last(c, list, "int"), None)
Select ==
    \E body \in Bodies \cup NestedBodies :
        Chain("select", select(c, body, list), select_sub(c, body, list))

\* c.set_error(e): how a step of the caller stores an error of its own
SetError ==
    /\ pc = "chain"
    /\ \E e \in Errors : c' = set_error(c, e)
    /\ lastop' = "set_error"
    /\ out' = NoResult
    /\ win' = "none"
    /\ consumed' = <<>>
    /\ sub' = None
    /\ loop' = NoLoop
    /\ UNCHANGED <<buf, list, pc, arg, vals>>

\* an extraction step followed by `?`: the chain goes on with the cursor on Ok
\* and returns the error on Err
Extract(op, res) ==
    /\ pc = "chain"
    /\ out' = res
    /\ pc' = IF res.tag = "Ok" THEN "chain" ELSE "done"
    /\ lastop' = op
    /\ sub' = None
    /\ loop' = NoLoop
    /\ UNCHANGED <<buf, c, list, arg, win, consumed>>

Validate == Extract("validate", tuple_validate(c, vals)) /\ UNCHANGED vals
ParseSelectionAsStr ==
    Extract("parse_selection_as_str", parse_selection_as_str(c)) /\ UNCHANGED vals
ParseSelection == Extract("parse_selection", parse_selection(c, "int")) /\ UNCHANGED vals

\* let text = c.get_selection()?
GetSelection == Extract("get_selection", get_selection(c)) /\ UNCHANGED vals

-----------------------------------------------------------------------------
(* repeat *)

\* the for loop of repeat from pass i on: str is the loop variable, vec the
\* collection the sub-parser borrows, t the cursor the sub-parser returned last.
\* cut: the model stops following the loop after MaxIter passes.  A pass that
\* returns the loop variable and the collection as they were is a fixed point of
\* the remaining passes, which all return the same.
RECURSIVE repeat_from(_, _, _, _, _, _)
RECURSIVE repeat_pass(_, _, _, _, _, _)
repeat_from(body, n, i, str0, vec, t) ==
    IF i >= n THEN [c |-> str0, list |-> vec, sub |-> t, panic |-> FALSE, cut |-> FALSE]
    ELSE repeat_pass(body, n, i, str0, vec, RunSteps(body, CloneCursor(str0), vec))

\* pass i, the sub-parser having returned r
repeat_pass(body, n, i, str0, vec, r) ==
    LET arm == repeat_arm(r.c, str0)
    IN  IF r.panic
        THEN [c |-> str0, list |-> r.list, sub |-> Some(r.c), panic |-> TRUE, cut |-> FALSE]
        ELSE IF arm.k = "return" \/ (arm.str = str0 /\ r.list = vec)
        THEN [c |-> arm.str, list |-> r.list, sub |-> Some(r.c), panic |-> FALSE,
              cut |-> FALSE]
        ELSE IF i + 1 >= MaxIter
        THEN [c |-> arm.str, list |-> r.list, sub |-> Some(r.c), panic |-> FALSE,
              cut |-> TRUE]
        ELSE repeat_from(body, n, i + 1, arm.str, r.list, Some(r.c))

\* Matchable::repeat
repeat(cur, rb, body, vec) == repeat_from(body, repeat_count(rb), 0, cur, vec, None)

RepeatRanges == {RFrom(1), R(1, 1), R(0, 0), Range(Unbounded, Excluded(0))}

\* the return of c.repeat(rb, body) with r
RepeatReturn(r) == ~r.cut /\ ChainStep("repeat", r, r.sub)

\* c.repeat(rb, body)
Repeat ==
    /\ \E rb \in RepeatRanges, body \in Bodies : RepeatReturn(repeat(c, rb, body, list))
    /\ loop' = NoLoop

-----------------------------------------------------------------------------
(* parse_struct_vec and parse_struct_vec_to *)

\* let mut vec = vec![]; let mut str = self
VecStartWith(kind, ps) ==
    /\ pc = "chain"
    /\ \E p \in ps :
         loop' = [kind |-> kind, p |-> p, i |-> 0, n |-> 0, self |-> c, str |-> c,
                  vec |-> <<>>]
    /\ pc' = "vec"
    /\ lastop' = kind
    /\ out' = NoResult
    /\ sub' = None
    /\ win' = "none"
    /\ consumed' = <<>>
    /\ UNCHANGED <<buf, c, list, arg, vals>>

VecStart(kind) == VecStartWith(kind, Parsers)

ParseStructVec == VecStart("parse_struct_vec")
ParseStructVecTo == VecStart("parse_struct_vec_to")

\* the match on what the sub-parser returned
VecMatch(rs, arm) ==
    /\ sub' = Some(rs.res)
    /\ CASE arm = "push" ->
              /\ loop' = [loop EXCEPT !.str = rs.res.v.c, !.i = loop.i + 1,
                                      !.vec = Append(loop.vec, rs.res.v.t)]
              /\ list' = IF loop.kind = "parse_struct_vec_to"
                         THEN Append(rs.list, rs.res.v.t) ELSE rs.list
              /\ UNCHANGED <<c, pc, out>>
         [] arm = "return_ok" ->
              /\ c' = loop.str
              /\ out' = Ok([c |-> loop.str,
                            vec |-> IF loop.kind = "parse_struct_vec"
                                    THEN loop.vec ELSE <<>>])
              /\ pc' = "chain"
              /\ list' = rs.list
              /\ UNCHANGED loop
         [] arm = "return_err" ->
              /\ out' = Err(rs.res.e)
              /\ pc' = "done"
              /\ list' = rs.list
              /\ UNCHANGED <<c, loop>>
         [] OTHER ->
              /\ out' = Panic
              /\ pc' = "done"
              /\ list' = rs.list
              /\ UNCHANGED <<c, loop>>

\* the result of one pass of the loop: (parser)(str.clone())
VecPass(rs) == VecMatch(rs, vec_arm(rs.res))

\* one pass of the loop: match (parser)(str.clone())
VecIter ==
    /\ pc = "vec"
    /\ loop.i < MaxIter
    /\ Len(list) < MaxIter
    /\ VecPass(RunParser(loop.p, CloneCursor(loop.str), list))
    /\ UNCHANGED <<buf, lastop, arg, win, consumed, vals>>

-----------------------------------------------------------------------------

Next ==
    \/ Digits \/ Alphabetics \/ Alphanumerics \/ CharsIn \/ CharsNotIn \/ CharsMatch
    \/ Text \/ Maybe \/ TextAlt \/ TextEos \/ TextEol \/ Find \/ ScanText \/ ScanEol
    \/ Ws \/ Hws \/ NonWs \/ Word \/ Noop
    \/ SelectionStart \/ SelectionEnd \/ AppendLast \/ Select \/ SetError
    \/ Validate \/ ParseSelectionAsStr \/ GetSelection
    \/ Repeat

Spec == Init /\ [][Next]_vars

\* the collection loops, started on the cursor of a buffer or on a cursor in error
VecAlphabet == {"1", ",", "a"}

InitVec ==
    /\ buf \in TextsUpTo(VecAlphabet, MaxVecLen)
    /\ c = cursor(buf)
    /\ list = <<>>
    /\ pc = "chain"
    /\ loop = NoLoop
    /\ out = NoResult
    /\ lastop = "cursor"
    /\ arg = None
    /\ sub = None
    /\ win = "none"
    /\ consumed = <<>>
    /\ vals = <<>>

NextVec == SetError \/ ParseStructVec \/ ParseStructVecTo \/ VecIter

SpecVec == InitVec /\ [][NextVec]_vars

-----------------------------------------------------------------------------
(* The class matchers on their own: one matcher applied to the cursor of a  *)
(* buffer, for every range and every text up to MaxScanLen                  *)

ScanAlphabet == {"1", "a", "e'", ","}

ScanLo == {Unbounded} \cup {Included(v) : v \in -1..(MaxScanLen + 1)}
ScanHi == {Unbounded, Excluded(0), Excluded(2)} \cup {Included(v) : v \in -1..(MaxScanLen + 1)}
ScanChars == {"1", "e'"}
ScanArgs == {[rb |-> Range(lo, hi), chars |-> ScanChars] : lo \in ScanLo, hi \in ScanHi}

InitScan ==
    /\ buf \in TextsUpTo(ScanAlphabet, MaxScanLen)
    /\ c = cursor(buf)
    /\ arg \in ScanArgs
    /\ list = <<>>
    /\ pc = "scan"
    /\ loop = NoLoop
    /\ out = NoResult
    /\ lastop = "cursor"
    /\ sub = None
    /\ win = "none"
    /\ consumed = <<>>
    /\ vals = <<>>

\* the call c.op(rb ..) on the fresh cursor, returning d
Scan(op, d) ==
    /\ pc = "scan"
    /\ c' = d
    /\ pc' = "scanned"
    /\ lastop' = op
    /\ UNCHANGED <<buf, list, loop, out, arg, sub, win, consumed, vals>>

ScanDigits == Scan("digits", digits(c, arg.rb))
ScanAlphabetics == Scan("alphabetics", alphabetics(c, arg.rb))
ScanAlphanumerics == Scan("alphanumerics", alphanumerics(c, arg.rb))
ScanCharsIn == Scan("chars_in", chars_in(c, arg.rb, arg.chars))
ScanCharsNotIn == Scan("chars_not_in", chars_not_in(c, arg.rb, arg.chars))
ScanCharsMatch == Scan("chars_match", chars_match(c, arg.rb, arg.chars))

NextScan ==
    \/ ScanDigits \/ ScanAlphabetics \/ ScanAlphanumerics
    \/ ScanCharsIn \/ ScanCharsNotIn \/ ScanCharsMatch

SpecScan == InitScan /\ [][NextScan]_vars

-----------------------------------------------------------------------------
(* repeat alone: a buffer, an optional first literal, then one call of repeat
   whose range and sub-parser are kept in arg and whose input cursor in loop.self *)

RepRanges ==
    {RFrom(1), RFrom(0), R(1, 1), R(0, 0), R(2, 2), R(3, 1), R(1, 2),
     Range(Unbounded, Excluded(0)), Range(Included(2), Excluded(2))}

InitRepeat ==
    /\ buf \in TextsUpTo(Alphabet, MaxRepLen)
    /\ c = cursor(buf)
    /\ arg \in [rb : RepRanges, body : Bodies]
    /\ list = <<>>
    /\ pc = "chain"
    /\ loop = NoLoop
    /\ out = NoResult
    /\ lastop = "cursor"
    /\ sub = None
    /\ win = "none"
    /\ consumed = <<>>
    /\ vals = <<>>

\* c.text(w) before the repeat
RepText == lastop = "cursor" /\ Text

\* c.set_error(e) before the repeat
RepSetError == lastop = "cursor" /\ SetError

\* c.repeat(arg.rb, arg.body)
RepCall ==
    /\ loop.kind # "repeat"
    /\ RepeatReturn(repeat(c, arg.rb, arg.body, list))
    /\ loop' = [NoLoop EXCEPT !.kind = "repeat", !.self = c]

NextRepeat == RepText \/ RepSetError \/ RepCall

SpecRepeat == InitRepeat /\ [][NextRepeat]_vars

-----------------------------------------------------------------------------
(* Chains on the accumulated tuple: a conversion step appends its value, every
   other call goes to the embedded cursor *)

\* the arities Selectable is implemented for: the cursor and 1 to 3 values
MaxSelectableVals == 3

\* variant: maybe_detuple putting the new value first
maybe_detuple_in_front(ts, v) == <<v>> \o ts

\* Matchable::maybe_detuple of the cursor and of the tuples: the values ts of
\* the tuple followed by the new value
maybe_detuple(ts, v) == Append(ts, v)

\* a conversion step on (c, vals..): Self::maybe_detuple((self, value))
TupExtract(op, res) ==
    /\ pc = "chain"
    /\ Len(vals) <= MaxSelectableVals
    /\ vals' = IF res.tag = "Ok" THEN maybe_detuple(vals, res.v.t) ELSE vals
    /\ out' = IF res.tag = "Ok" THEN Ok(Tuple(res.v.c, maybe_detuple(vals, res.v.t))) ELSE res
    /\ pc' = IF res.tag = "Ok" THEN "chain" ELSE "done"
    /\ lastop' = op
    /\ sub' = None
    /\ loop' = NoLoop
    /\ UNCHANGED <<buf, c, list, arg, win, consumed>>

TupParseSelection == TupExtract("parse_selection", parse_selection(c, "int"))
TupParseSelectionAsStr == TupExtract("parse_selection_as_str", parse_selection_as_str(c))

\* selection_start and selection_end of the tuples, which Selectable has for
\* the cursor and for 1 to 3 values
TupSelectionStart == Len(vals) <= MaxSelectableVals /\ SelectionStart
TupSelectionEnd == Len(vals) <= MaxSelectableVals /\ SelectionEnd

NextTuple ==
    \/ Digits \/ Text \/ Maybe \/ TupSelectionStart \/ TupSelectionEnd \/ SetError
    \/ TupParseSelection \/ TupParseSelectionAsStr \/ Validate

SpecTuple == Init /\ [][NextTuple]_vars

-----------------------------------------------------------------------------
(* One literal or structural matcher applied to the fresh cursor of a text *)

MaxLitLen == 3
MaxFindCalls == 3

LitAlphabet == {"a", "b", "c", " ", "-", "\n", "\r"}
LitWords == {<<>>, <<"a">>, <<"a", "b">>, <<"b", "c">>, <<"\n">>}
LitAltLists ==
    {<<>>, << <<"a">>, <<"a", "b">> >>, << <<"a", "b">>, <<"a">> >>, << <<"b">>, <<>> >>}

InitLit ==
    /\ buf \in TextsUpTo(LitAlphabet, MaxLitLen)
    /\ c = cursor(buf)
    /\ arg = None
    /\ list = <<>>
    /\ pc = "lit"
    /\ loop = NoLoop
    /\ out = NoResult
    /\ lastop = "cursor"
    /\ sub = None
    /\ win = "none"
    /\ consumed = <<>>
    /\ vals = <<>>

\* the call c.op(a) on the fresh cursor, returning d
Lit(op, a, d) ==
    /\ pc = "lit"
    /\ c' = d
    /\ arg' = a
    /\ pc' = "matched"
    /\ lastop' = op
    /\ UNCHANGED <<buf, list, loop, out, sub, win, consumed, vals>>

LitNoop == Lit("noop", None, noop(c))
LitWs == Lit("ws", None, ws(c))
LitNonWs == Lit("non_ws", None, non_ws(c))
LitHws == Lit("hws", None, hws(c))
LitWord == Lit("word", None, word(c))
LitScanEol == Lit("scan_eol", None, scan_eol(c))
LitTextEos == Lit("text_eos", None, text_eos(c))
LitTextEol == Lit("text_eol", None, text_eol(c))
LitText == \E w \in LitWords : Lit("text", Some(w), text(c, w))
LitMaybe == \E w \in LitWords : Lit("maybe", Some(w), maybe(c, w))
LitTextAlt == \E l \in LitAltLists : Lit("text_alt", Some(l), text_alt(c, l))
LitFind == \E w \in LitWords : Lit("find", Some(w), find(c, w))
LitScanText == \E w \in LitWords : Lit("scan_text", Some(w), scan_text(c, w))

\* find(w) called again on what find(w) returned; sub keeps the cursor of the
\* first call and loop.i counts the calls after it
LitFindAgain ==
    /\ pc = "matched" /\ lastop = "find"
    /\ loop.i < MaxFindCalls - 1
    /\ c' = find(c, arg[1])
    /\ sub' = IF loop.i = 0 THEN Some(c) ELSE sub
    /\ loop' = [loop EXCEPT !.i = @ + 1]
    /\ UNCHANGED <<buf, list, pc, out, lastop, arg, win, consumed, vals>>

\* text(w) called on what find(w) returned; sub keeps the cursor find returned
LitFindText ==
    /\ pc = "matched" /\ lastop = "find" /\ loop.i = 0
    /\ c' = text(c, arg[1])
    /\ sub' = Some(c)
    /\ lastop' = "find.text"
    /\ UNCHANGED <<buf, list, pc, loop, out, arg, win, consumed, vals>>

NextLit ==
    \/ LitNoop \/ LitWs \/ LitNonWs \/ LitHws \/ LitWord \/ LitScanEol
    \/ LitTextEos \/ LitTextEol
    \/ LitText \/ LitMaybe \/ LitTextAlt \/ LitFind \/ LitScanText
    \/ LitFindAgain \/ LitFindText

SpecLit == InitLit /\ [][NextLit]_vars

-----------------------------------------------------------------------------
(* The chain of test_parse_from_str on every text:
   cursor(s).digits(1..).parse_selection::<i32>()?.text("X").digits(1..)
            .parse_selection::<i32>()? *)

MaxFromStrLen == 6

FromStrAlphabet == {"2", "4", "5", "X", "Y"}

InitFromStr ==
    /\ buf \in TextsUpTo(FromStrAlphabet, MaxFromStrLen)
    /\ c = cursor(buf)
    /\ list = <<>>
    /\ pc = "chain"
    /\ loop = NoLoop
    /\ out = NoResult
    /\ lastop = "cursor"
    /\ arg = None
    /\ sub = None
    /\ win = "none"
    /\ consumed = <<>>
    /\ vals = <<>>

\* .digits(1..), first and fourth call of the chain
FromStrDigits == lastop \in {"cursor", "text"} /\ Call("digits", digits(c, RFrom(1)))

\* .parse_selection::<i32>()?, second and fifth call
FromStrParse == lastop \in {"digits", "skipped"} /\ TupParseSelection

\* .text("X"), third call, on the tuple (c, i)
FromStrText == lastop = "parse_selection" /\ Len(vals) = 1 /\ Call("text", text(c, <<"X">>))

NextFromStr == FromStrDigits \/ FromStrParse \/ FromStrText

SpecFromStr == InitFromStr /\ [][NextFromStr]_vars

-----------------------------------------------------------------------------
(* The first loop of test_parse_lists on every text:
   cursor(s).parse_struct_vec_to(|c| c.selection_start().digits(1..5)
       .selection_end().text_alt(&[",", " "]).parse_selection_as_str(), &mut vec1) *)

MaxListsLen == 6

ListsAlphabet == {"1", "2", ",", " "}

ListsParser ==
    [steps |-> << Step("selection_start", <<>>), Step("digits", Range(Included(1), Excluded(5))),
                  Step("selection_end", <<>>), Step("text_alt", << <<",">>, <<" ">> >>) >>,
     fin |-> "parse_selection_as_str"]

InitLists ==
    /\ buf \in TextsUpTo(ListsAlphabet, MaxListsLen)
    /\ c = cursor(buf)
    /\ list = <<>>
    /\ pc = "chain"
    /\ loop = NoLoop
    /\ out = NoResult
    /\ lastop = "cursor"
    /\ arg = None
    /\ sub = None
    /\ win = "none"
    /\ consumed = <<>>
    /\ vals = <<>>

\* s.parse_struct_vec_to(parser, &mut vec1)
ListsStart == lastop = "cursor" /\ ParseStructVecTo /\ loop'.p = ListsParser

NextLists == ListsStart \/ VecIter

SpecLists == InitLists /\ [][NextLists]_vars

-----------------------------------------------------------------------------
(* The second chain of test_parse_lists on every text:
   cursor(s).text("{").repeat(1.., |c| c.digits(1..).append_last(&mut ll2).maybe(","))
            .text("}").validate() *)

MaxBracesLen == 6

BracesAlphabet == {"1", "2", ",", "{", "}"}

BracesBody == << Step("digits", RFrom(1)), Step("append_last", "int"), Step("maybe", <<",">>) >>

InitBraces ==
    /\ buf \in TextsUpTo(BracesAlphabet, MaxBracesLen)
    /\ c = cursor(buf)
    /\ list = <<>>
    /\ pc = "chain"
    /\ loop = NoLoop
    /\ out = NoResult
    /\ lastop = "cursor"
    /\ arg = None
    /\ sub = None
    /\ win = "none"
    /\ consumed = <<>>
    /\ vals = <<>>

\* call number k of the chain, k counted in loop.i
BracesCall(k, op, r, s) ==
    /\ loop.i = k
    /\ Return(op, r, s)
    /\ loop' = [NoLoop EXCEPT !.i = k + 1]

BracesOpen == lastop = "cursor" /\ BracesCall(0, "text", St(text(c, <<"{">>), list), None)

BracesRepeatReturn(r) == ~r.cut /\ BracesCall(1, "repeat", r, r.sub)

BracesRepeat == BracesRepeatReturn(repeat(c, RFrom(1), BracesBody, list))

BracesClose == BracesCall(2, "text", St(text(c, <<"}">>), list), None)

BracesValidate == loop.i = 3 /\ Validate

NextBraces == BracesOpen \/ BracesRepeat \/ BracesClose \/ BracesValidate

SpecBraces == InitBraces /\ [][NextBraces]_vars

-----------------------------------------------------------------------------
(* The first two fields of parse_time_v1 on every text:
   cursor(s).digits(2..=2).parse_selection().bind(&mut hh).text(":")
            .digits(2..=2).parse_selection().bind(&mut mm).validate()
   list holds the targets bound so far, in order; out holds the Result that
   parse_selection hands to bind *)

MaxTimeLen == 5

TimeAlphabet == {"1", "2", ":"}

InitTime ==
    /\ buf \in TextsUpTo(TimeAlphabet, MaxTimeLen)
    /\ c = cursor(buf)
    /\ list = <<>>
    /\ pc = "chain"
    /\ loop = NoLoop
    /\ out = NoResult
    /\ lastop = "cursor"
    /\ arg = None
    /\ sub = None
    /\ win = "none"
    /\ consumed = <<>>
    /\ vals = <<>>

\* impl Bind for Result<(C, T), ParseError>: Ok((s, t)) assigns t to the target
\* and returns s; Err(_) reaches todo!(), which aborts
bind(res, targets) ==
    IF res.tag = "Ok" THEN [c |-> res.v.c, list |-> Append(targets, res.v.t), panic |-> FALSE]
    ELSE [c |-> c, list |-> targets, panic |-> TRUE]

\* .digits(2..=2), calls 0 and 3 of the chain
TimeDigits == loop.i \in {0, 3} /\ BracesCall(loop.i, "digits", St(digits(c, R(2, 2)), list), None)

\* .parse_selection(), calls 1 and 4: the Result is handed to bind
TimeParse ==
    /\ pc = "chain" /\ loop.i \in {1, 4}
    /\ out' = parse_selection(c, "int")
    /\ pc' = "bind"
    /\ lastop' = "parse_selection"
    /\ UNCHANGED <<buf, c, list, loop, arg, sub, win, consumed, vals>>

\* .bind(&mut hh), .bind(&mut mm)
TimeBind ==
    /\ pc = "bind"
    /\ c' = bind(out, list).c
    /\ list' = bind(out, list).list
    /\ out' = IF bind(out, list).panic THEN Panic ELSE NoResult
    /\ pc' = IF bind(out, list).panic THEN "done" ELSE "chain"
    /\ loop' = [loop EXCEPT !.i = @ + 1]
    /\ lastop' = "bind"
    /\ UNCHANGED <<buf, arg, sub, win, consumed, vals>>

\* .text(":"), call 2
TimeText == BracesCall(2, "text", St(text(c, <<":">>), list), None)

\* .validate(), call 5
TimeValidate == loop.i = 5 /\ Validate

NextTime == TimeDigits \/ TimeParse \/ TimeBind \/ TimeText \/ TimeValidate

SpecTime == InitTime /\ [][NextTime]_vars

-----------------------------------------------------------------------------
(* The parse steps that run a text sub-parser, chained as in parse_time_period:
   cursor(s).parse_x(item)?.text("-").parse_x(item)?.validate()
   parse_x one of parse_struct_str, parse_with, parse_put, parse_to_opt *)

MaxSubLen == 4

SubAlphabet == {"1", "2", "-"}

SubOps == {"parse_struct_str", "parse_with", "parse_put", "parse_to_opt"}

\* a sub-parser FnMut(&str) -> Result<(&str, T), ParseError>, shaped as
\* parse_time_v3: |s| { let (c, n) = cursor(s).digits(1..).parse_selection()?;
\*                      Ok((c.str()?, n)) }
item(s) ==
    LET r == parse_selection(digits(cursor(s), RFrom(1)), "int")
    IN  IF r.tag = "Ok" THEN Ok([s |-> Txt(r.v.c), t |-> r.v.t]) ELSE r

\* Matchable::parse_struct_str, outcome being (parser)(s): the cursor continues
\* on the text the sub-parser returned, the value joins the tuple
parse_struct_str(cur, ts, outcome) ==
    CASE str(cur).tag = "Err" -> str(cur)
      [] outcome.tag = "Err" -> outcome
      [] OTHER -> Ok(Tuple(set_str(cur, outcome.v.s), maybe_detuple(ts, outcome.v.t)))

\* Matchable::parse_with, parse_put and parse_to_opt: the text the sub-parser
\* returned is bound to _s and dropped, the cursor is returned as it was
parse_with(cur, ts, outcome) ==
    CASE str(cur).tag = "Err" -> str(cur)
      [] outcome.tag = "Err" -> outcome
      [] OTHER -> Ok(Tuple(cur, ts))

\* what the step leaves in the destination: save_func(t) pushes t, *dest = t,
\* *dest = Some(t); parse_struct_str has no destination
Saved(op, dest, t) ==
    CASE op = "parse_with" -> Append(dest, t)
      [] op = "parse_put" -> <<t>>
      [] op = "parse_to_opt" -> <<Some(t)>>
      [] OTHER -> dest

SubStep(op, cur, ts) ==
    IF op = "parse_struct_str" THEN parse_struct_str(cur, ts, item(Txt(cur)))
    ELSE parse_with(cur, ts, item(Txt(cur)))

InitSub ==
    /\ buf \in TextsUpTo(SubAlphabet, MaxSubLen)
    /\ c = cursor(buf)
    /\ list = <<>>
    /\ pc = "chain"
    /\ loop = NoLoop
    /\ out = NoResult
    /\ lastop = "cursor"
    /\ arg = None
    /\ sub = None
    /\ win = "none"
    /\ consumed = <<>>
    /\ vals = <<>>

\* .parse_x(item)?, calls 0 and 2 of the chain
SubParse ==
    /\ pc = "chain" /\ loop.i \in {0, 2}
    /\ \E op \in SubOps :
        LET res == SubStep(op, c, vals)
        IN  /\ lastop' = op
            /\ out' = res
            /\ pc' = IF res.tag = "Ok" THEN "chain" ELSE "done"
            /\ c' = IF res.tag = "Ok" THEN res.v.c ELSE c
            /\ vals' = IF res.tag = "Ok" THEN res.v.vals ELSE vals
            /\ list' = IF res.tag = "Ok" THEN Saved(op, list, item(Txt(c)).v.t) ELSE list
    /\ loop' = [loop EXCEPT !.i = @ + 1]
    /\ UNCHANGED <<buf, arg, sub, win, consumed>>

\* .text("-"), call 1
SubText == BracesCall(1, "text", St(text(c, <<"-">>), list), None)

\* .validate(), call 3
SubValidate == loop.i = 3 /\ Validate

\* c.set_error(e) between two calls, once: a step of the caller stores an error
SubSetError ==
    /\ pc = "chain" /\ c.err = None
    /\ \E e \in Errors : c' = set_error(c, e)
    /\ lastop' = "set_error"
    /\ out' = NoResult
    /\ UNCHANGED <<buf, list, pc, loop, arg, sub, win, consumed, vals>>

\* .parse_selection()? and .parse_selection_as_str()? in the place of validate
SubParseSelection == loop.i = 3 /\ TupParseSelection
SubParseSelectionAsStr == loop.i = 3 /\ TupParseSelectionAsStr

NextSub ==
    \/ SubParse \/ SubText \/ SubValidate
    \/ SubSetError \/ SubParseSelection \/ SubParseSelectionAsStr

SpecSub == InitSub /\ [][NextSub]_vars

-----------------------------------------------------------------------------
(* The collection loops on a sub-parser that succeeds without consuming text *)

MaxIdleLen == 3

IdleAlphabet == {"1", " "}

\* |c| c.ws().parse_selection_as_str(): ws never fails, and the capture of a
\* cursor without error can always be read
IdleParser == [steps |-> << Step("ws", <<>>) >>, fin |-> "parse_selection_as_str"]

InitIdle ==
    /\ buf \in TextsUpTo(IdleAlphabet, MaxIdleLen)
    /\ c = cursor(buf)
    /\ list = <<>>
    /\ pc = "chain"
    /\ loop = NoLoop
    /\ out = NoResult
    /\ lastop = "cursor"
    /\ arg = None
    /\ sub = None
    /\ win = "none"
    /\ consumed = <<>>
    /\ vals = <<>>

\* cursor(s).parse_struct_vec(parser), cursor(s).parse_struct_vec_to(parser, &mut vec)
IdleStart ==
    /\ lastop = "cursor"
    /\ \E kind \in {"parse_struct_vec", "parse_struct_vec_to"} : VecStartWith(kind, {IdleParser})

NextIdle == IdleStart \/ VecIter

SpecIdle == InitIdle /\ [][NextIdle]_vars

-----------------------------------------------------------------------------
(* Properties of the class matchers (SpecScan) *)

ClassOps ==
    {"digits", "alphabetics", "alphanumerics", "chars_in", "chars_not_in", "chars_match"}

\* the characters the matcher op is meant to consume
ClassChars(op) ==
    CASE op = "digits" -> {ch \in Chars : is_ascii_digit(ch)}
      [] op = "alphabetics" -> {ch \in Chars : is_alphabetic(ch)}
      [] op = "alphanumerics" -> {ch \in Chars : is_alphanumeric(ch)}
      [] op = "chars_not_in" -> Chars \ arg.chars
      [] OTHER -> arg.chars

\* the diagnostic label of the matcher op
ClassAction(op) ==
    CASE op = "digits" -> "digits_m"
      [] op \in {"alphabetics", "alphanumerics"} -> "alpha_many"
      [] OTHER -> op

\* the bounds of the range as the claims read them: an exclusive upper bound e is
\* hi = e - 1, an absent bound is lo = 0 or hi = unbounded
Lo == LET start == start_end(arg.rb)[1] IN IF start = None THEN 0 ELSE start[1]
Hi == LET end == start_end(arg.rb)[2] IN IF end = None THEN I32Max ELSE end[1]

Scanned == pc = "scanned" /\ lastop \in ClassOps
\* the length, in characters, of the leading run of class characters of the buffer
Run == RunLen(buf, Chars \ ClassChars(lastop))
\* a stop character follows the run
StopFound == Run < Len(buf)
\* the byte index of the first stop character
StopIndex == ByteLen(TakeChars(buf, Run))
Succeeded == c.err = None /\ c.cur # None
FailedNoMatch == c.cur = None /\ c.err # None /\ c.err[1].tag = "NoMatch"

\* C3 (as claimed): for 0 <= lo <= hi, digits(lo..=hi) succeeds iff the leading run
\* of ASCII digits has a length n with lo <= n <= hi, then exactly those n digits are
\* consumed; in every other case the cursor ends in a NoMatch error.
C3_DigitsRunWithinBounds ==
    (Scanned /\ lastop = "digits" /\ arg.rb.lo.b = "Included" /\ arg.rb.hi.b = "Included"
       /\ 0 <= Lo /\ Lo <= Hi)
    => IF Lo <= Run /\ Run <= Hi
       THEN Succeeded /\ c.cur = Some(DropChars(buf, Run))
       ELSE FailedNoMatch

C5_ExhaustedWithinBounds ==
    (Scanned /\ ~StopFound)
    => IF Lo <= Len(buf) /\ Len(buf) <= Hi
       THEN Succeeded /\ c.cur = Some(<<>>)
       ELSE c.cur = None /\ c.err = Some(NoMatch(ClassAction(lastop), ""))

-----------------------------------------------------------------------------
(* Properties of the chain (Spec) *)

IsFatal(o) == o # None /\ o[1].tag = "Fatal"

\* C1: a matching or capture combinator, select, append_last or repeat called on
\* a cursor whose error is set returns the cursor as it was: the same stored
\* error, still no remaining text, the same selection.
C1_StickyError ==
    [][(c.err # None /\ lastop' = "skipped")
       => (c'.err = c.err /\ c'.cur = None /\ c'.selection = c.selection /\ c' = c)]_vars

\* C1 witness: a combinator was called on a cursor that stores a Fatal error.
C1_Witness == lastop = "skipped" /\ IsFatal(c.err) /\ c.cur = None

\* C2: the cursor holds exactly one of a remaining text and a stored error.
C2_ExactlyOneOfTextAndError == (c.cur = None) <=> (c.err # None)

\* C2 witness: a select on a cursor with a remaining text left it with an error
\* and no remaining text.
C2_Witness == lastop = "select" /\ c.cur = None /\ c.err # None /\ buf # <<>>

\* C6: after selection_start(), successful matchers and selection_end(), the
\* capture read by get_selection and by parse_selection_as_str is exactly the
\* text consumed between the two calls.
C6_CaptureExact ==
    /\ win = "closed" => get_selection(c) = Ok(consumed)
    /\ (win = "closed" /\ lastop = "parse_selection_as_str")
       => out = Ok([c |-> c, t |-> StrVal(consumed)])

\* C6 witness: text was consumed before selection_start(), more text between the
\* two calls, and the capture was read.
C6_Witness ==
    /\ win = "closed" /\ lastop = "parse_selection_as_str" /\ out.tag = "Ok"
    /\ consumed # <<>>
    /\ Len(buf) > Len(consumed) + Len(Txt(c))

\* C9 (as claimed): when the sub-parser of repeat leaves the cursor with a Fatal
\* error, the cursor repeat returns carries that error and validate() fails
\* with it.
C9_RepeatPropagatesFatal ==
    (lastop = "repeat" /\ sub # None /\ IsFatal(sub[1].err))
    => (c.err = sub[1].err /\ validate(c) = Err(sub[1].err[1]))

\* C10 (as claimed): when the sub-parser of select leaves the cursor with a Fatal
\* error, the cursor select returns stores that same error.
C10_SelectKeepsFatal ==
    (lastop = "select" /\ sub # None /\ IsFatal(sub[1].err)) => c.err = sub[1].err

\* the matcher of the state on the text that ends right after the leading run
OnRunAlone ==
    find_first(cursor(TakeChars(buf, Run)), arg.rb, Chars \ ClassChars(lastop),
               ClassAction(lastop))

\* C34 (as claimed): with the same range, a class matcher succeeds on a text
\* whose leading run of n class characters is followed by a stop character
\* exactly when it succeeds on the text that ends right after the run.
C34_OutcomeIndependentOfRunEnd ==
    (Scanned /\ StopFound) => (Succeeded <=> OnRunAlone.err = None)

\* the range as the claim normalizes it: a negative or absent lower bound is
\* 0, an exclusive upper bound e is the inclusive e - 1
Normalized(rb) ==
    Range(CASE rb.lo.b = "Included" /\ rb.lo.v >= 0 -> rb.lo
            [] rb.lo.b = "Excluded" /\ rb.lo.v + 1 >= 0 -> Included(rb.lo.v + 1)
            [] OTHER -> Included(0),
          IF rb.hi.b = "Excluded" THEN Included(rb.hi.v - 1) ELSE rb.hi)

\* C35 (as claimed): a class matcher treats its range as the normalized one: an
\* exclusive upper bound e as hi = e - 1, an absent bound as lo = 0 or no upper
\* bound, a negative lower bound as 0; digits(-1..=3) accepts the texts
\* digits(0..=3) accepts.
C35_RangeNormalization ==
    Scanned
    => c = find_first(cursor(buf), Normalized(arg.rb), Chars \ ClassChars(lastop),
                      ClassAction(lastop))

\* the buffer with every character of its leading run replaced by the
\* single-byte letter "a"
SingleByteRun == [i \in 1..Len(buf) |-> IF i <= Run THEN "a" ELSE buf[i]]

\* C36 (as claimed): the bounds of alphabetics count characters: on a leading run
\* of k letters followed by a stop character it succeeds or fails as it does on
\* a run of k single-byte letters followed by the same text, whatever the
\* number of bytes of the letters.
C36_BoundsCountCharacters ==
    (Scanned /\ lastop = "alphabetics" /\ StopFound)
    => (Succeeded <=> alphabetics(cursor(SingleByteRun), arg.rb).err = None)

-----------------------------------------------------------------------------
(* Properties of the collection loops (SpecVec) *)

VecKinds == {"parse_struct_vec", "parse_struct_vec_to"}

\* the cursor and the values after k applications of p from cur that all succeed
RECURSIVE Applied(_, _, _)
AppliedAfter(p, first, k) ==
    [c |-> Applied(p, first.v.c, k - 1).c,
     vec |-> <<first.v.t>> \o Applied(p, first.v.c, k - 1).vec]

Applied(p, cur, k) ==
    IF k = 0 THEN [c |-> cur, vec |-> <<>>]
    ELSE AppliedAfter(p, RunParser(p, CloneCursor(cur), <<>>).res, k)

\* the values the loop handed to its caller: the returned sequence, or what it
\* added to the destination
Collected ==
    IF lastop = "parse_struct_vec" THEN out.v.vec
    ELSE SubSeq(list, Len(list) - loop.i + 1, Len(list))

\* C7: the collection loops never return NoMatch; they return success with the
\* values of the applications that succeeded before the first NoMatch, in order,
\* and the cursor the last of them returned; success with no value and the
\* input cursor when the first application fails with NoMatch.
C7_CollectionLoopTotality ==
    /\ (lastop \in VecKinds /\ out.tag = "Err") => out.e.tag = "Fatal"
    /\ (lastop \in VecKinds /\ out.tag = "Ok")
       => /\ sub # None /\ sub[1].tag = "Err" /\ sub[1].e.tag = "NoMatch"
          /\ sub[1] = RunParser(loop.p, CloneCursor(out.v.c), <<>>).res
          /\ c = out.v.c
          /\ out.v.c = Applied(loop.p, loop.self, loop.i).c
          /\ Collected = Applied(loop.p, loop.self, loop.i).vec
          /\ loop.i = 0 => (out.v.c = loop.self /\ Collected = <<>>)

\* C7 witness: parse_struct_vec returned two values and a moved cursor.
C7_Witness ==
    /\ lastop = "parse_struct_vec" /\ pc = "chain" /\ out.tag = "Ok"
    /\ Len(out.v.vec) >= 2 /\ out.v.c # loop.self

\* C8: when the sub-parser of a collection loop returns a Fatal failure, the
\* loop stops and the call returns that same failure.
C8_VecLoopsReturnFatal ==
    (lastop \in VecKinds /\ sub # None /\ sub[1].tag = "Err" /\ sub[1].e.tag = "Fatal")
    => (pc = "done" /\ out = sub[1])

\* C8 witness: a loop that had collected a value returned the Fatal failure of
\* its sub-parser.
C8_Witness ==
    /\ lastop \in VecKinds /\ pc = "done" /\ out = Err(Fatal("io")) /\ loop.i >= 1
    /\ sub = Some(out)

-----------------------------------------------------------------------------
(* Properties of repeat (SpecRepeat) *)

Min(a, b) == IF a < b THEN a ELSE b

\* the cursor and the collection after k passes of body from cur that all
\* succeed; ok is FALSE when one of them fails
RECURSIVE Passes(_, _, _, _)
RECURSIVE PassesAfter(_, _, _)
Passes(body, cur, vec, k) ==
    IF k = 0 THEN [c |-> cur, list |-> vec, ok |-> TRUE]
    ELSE PassesAfter(body, RunSteps(body, CloneCursor(cur), vec), k)

PassesAfter(body, r, k) ==
    IF r.panic \/ r.c.err # None THEN [c |-> r.c, list |-> r.list, ok |-> FALSE]
    ELSE Passes(body, r.c, r.list, k - 1)

\* the pass of body on cur fails
PassFails(body, cur, vec) == RunSteps(body, CloneCursor(cur), vec).c.err # None

\* the pass of body on cur succeeds and changes nothing, as every later pass
PassIdle(body, cur, vec) == RunSteps(body, CloneCursor(cur), vec) = St(cur, vec)

\* repeat stopped after k passes, p being the state they left
StoppedAfter(k, p) ==
    /\ p.ok
    /\ c = p.c
    /\ \/ k = repeat_count(arg.rb)
       \/ (repeat_count(arg.rb) < 0 /\ k = 0)
       \/ PassFails(arg.body, p.c, p.list)
       \/ PassIdle(arg.body, p.c, p.list)

RepeatedOnText == loop.kind = "repeat" /\ loop.self.cur # None /\ pc = "chain"

\* C11: on a cursor without error repeat applies the sub-parser at most hi times,
\* stops at the first pass that fails and returns the cursor of the last pass
\* that succeeded, the input cursor if none did; the cursor it returns is
\* never in error, whatever the lower bound.
C11_RepeatBestEffort ==
    RepeatedOnText
    => /\ c.err = None /\ c.cur # None
       /\ \E k \in 0..MaxIter :
            /\ k <= repeat_count(arg.rb) \/ k = 0
            /\ StoppedAfter(k, Passes(arg.body, loop.self, <<>>, k))
       /\ PassFails(arg.body, loop.self, <<>>) => c = loop.self

\* C11 witness: repeat(2..=2, ..) made one pass, the second failed, and it
\* returned the cursor of the first although the lower bound is 2.
C11_Witness ==
    /\ RepeatedOnText /\ arg.rb = R(2, 2) /\ c.err = None /\ c # loop.self
    /\ sub # None /\ sub[1].err # None
    /\ Passes(arg.body, loop.self, <<>>, 1).ok /\ c = Passes(arg.body, loop.self, <<>>, 1).c

\* C33 (as claimed): after repeat returns, the collection holds the elements
\* append_last added in the passes repeat counted as successful, and none of a
\* pass that appended a value and then failed.
C33_RepeatAppendsCountedPasses ==
    RepeatedOnText
    => \E k \in 0..MaxIter :
         /\ StoppedAfter(k, Passes(arg.body, loop.self, <<>>, k))
         /\ list = Passes(arg.body, loop.self, <<>>, k).list

-----------------------------------------------------------------------------
(* Properties of validate (SpecTuple) *)

\* C12: validate() on the cursor or on an accumulated tuple returns the value
\* itself as success exactly when no error is stored, and the stored error as
\* the failure otherwise.
C12_ValidateSurfacesStoredError ==
    lastop = "validate"
    => IF c.err = None
       THEN out = Ok(IF vals = <<>> THEN c ELSE Tuple(c, vals))
       ELSE out = Err(c.err[1])

\* C12 witness: validate() on a tuple of four values whose cursor stores a
\* Fatal error.
C12_Witness ==
    lastop = "validate" /\ Len(vals) = 4 /\ c.err = Some(Fatal("io")) /\ out.tag = "Err"

-----------------------------------------------------------------------------
(* Properties of the literal matchers (SpecLit) *)

Matched(op) == pc = "matched" /\ lastop = op

IsSuffix(t, s) == Len(t) <= Len(s) /\ DropChars(s, Len(s) - Len(t)) = t

NeverFailing == {"maybe", "ws", "hws", "non_ws", "word", "scan_eol", "noop"}

\* C13: maybe, ws, hws, non_ws, word, scan_eol and noop never fail: on a cursor
\* without error, whatever its remaining text (the empty text included), they
\* return a cursor without error whose remaining text is a suffix of the
\* previous remaining text.
C13_NeverFailingMatchers ==
    (pc = "matched" /\ lastop \in NeverFailing)
    => c.err = None /\ c.cur # None /\ IsSuffix(Txt(c), buf)

\* C13 witness: maybe("a") on the empty text, where the literal is absent.
C13_Witness ==
    Matched("maybe") /\ buf = <<>> /\ arg = Some(<<"a">>) /\ c.err = None /\ Txt(c) = <<>>

\* w is a prefix of s
HasPrefix(s, w) == \E k \in 0..Len(s) : SubSeq(s, 1, k) = w

\* C14: text(w) succeeds exactly when the remaining text starts with w and then
\* removes exactly that prefix; otherwise the cursor stores a recoverable NoMatch
\* and holds no text. text("") always matches and consumes nothing. maybe(w)
\* does what text(w) does when the prefix is there and leaves text and error as
\* they were when it is not.
C14_TextAndMaybe ==
    /\ Matched("text")
       => IF HasPrefix(buf, arg[1])
          THEN c.err = None /\ c.cur # None /\ arg[1] \o Txt(c) = buf
          ELSE c.cur = None /\ c.err = Some(NoMatch("text", ""))
    /\ (Matched("text") /\ arg[1] = <<>>) => (c.err = None /\ c.cur = Some(buf))
    /\ Matched("maybe")
       => /\ c.err = None /\ c.cur # None
          /\ IF HasPrefix(buf, arg[1]) THEN arg[1] \o Txt(c) = buf ELSE Txt(c) = buf

\* C14 witness: text("ab") on "abc" leaves "c".
C14_Witness ==
    Matched("text") /\ arg = Some(<<"a", "b">>) /\ buf = <<"a", "b", "c">>
    /\ c.err = None /\ c.cur = Some(<<"c">>)

\* the positions of the literals of list l that are a prefix of s
PrefixesIn(l, s) == {i \in 1..Len(l) : HasPrefix(s, l[i])}

\* C15: text_alt(l) strips the first literal of l, in list order, that is a
\* prefix of the remaining text, not the longest one, and fails with NoMatch
\* when no literal of l is a prefix, so always for the empty list.
C15_TextAltFirstInOrder ==
    Matched("text_alt")
    => IF PrefixesIn(arg[1], buf) = {}
       THEN c.cur = None /\ c.err = Some(NoMatch("text_alt", ""))
       ELSE /\ c.err = None /\ c.cur # None
            /\ \E i \in PrefixesIn(arg[1], buf) :
                 /\ \A j \in PrefixesIn(arg[1], buf) : i <= j
                 /\ arg[1][i] \o Txt(c) = buf

\* C15 witness: text_alt(["a", "ab"]) on "abc" leaves "bc".
C15_Witness ==
    Matched("text_alt") /\ arg = Some(<< <<"a">>, <<"a", "b">> >>)
    /\ buf = <<"a", "b", "c">> /\ c.err = None /\ c.cur = Some(<<"b", "c">>)

\* the positions of s, counted in characters skipped, where w occurs
Occurrences(s, w) == {k \in 0..Len(s) : HasPrefix(DropChars(s, k), w)}

\* text and error of two cursors agree
SameTextAndError(d, e) == d.cur = e.cur /\ d.err = e.err

AfterFirst(s, w) ==
    DropChars(s, Len(w) + CHOOSE k \in Occurrences(s, w) : \A j \in Occurrences(s, w) : k <= j)

\* cursor d is what skipping over the first occurrence of arg in buf gives
SkippedOver(d) ==
    IF Occurrences(buf, arg[1]) = {}
    THEN d.cur = None /\ d.err # None /\ d.err[1].tag = "NoMatch"
    ELSE d.err = None /\ d.cur = Some(AfterFirst(buf, arg[1]))

\* C17: scan_text(w) is equivalent to find(w) followed by text(w): for every
\* text and needle both succeed or both fail, and on success both leave the
\* text just after the first occurrence of the needle.
C17_ScanTextIsFindThenText ==
    /\ Matched("scan_text") => SkippedOver(c)
    /\ Matched("find.text")
       => /\ SkippedOver(c)
          /\ c.cur = scan_text(cursor(buf), arg[1]).cur
          /\ (c.err = None) <=> (scan_text(cursor(buf), arg[1]).err = None)

\* C17 witness: find("a").text("a") on "bab" leaves "b", as scan_text("a") does.
C17_Witness ==
    /\ Matched("find.text") /\ arg = Some(<<"a">>) /\ buf = <<"b", "a", "b">>
    /\ sub = Some(find(cursor(buf), <<"a">>)) /\ sub[1].cur = Some(<<"a", "b">>)
    /\ c.err = None /\ c.cur = Some(<<"b">>)
    /\ scan_text(cursor(buf), <<"a">>).cur = Some(<<"b">>)

-----------------------------------------------------------------------------
(* Properties of the chains of the tests (SpecFromStr) *)

DigitChars == {ch \in Chars : is_ascii_digit(ch)}

\* the leading digit run of s and what follows it
LeadDigits(s) == TakeChars(s, RunLen(s, Chars \ DigitChars))
AfterDigits(s) == DropChars(s, RunLen(s, Chars \ DigitChars))

\* s is d1 X d2 rest with d1, d2 digit runs; rest cannot start with a digit
IsD1XD2(s) ==
    /\ LeadDigits(s) # <<>>
    /\ HasPrefix(AfterDigits(s), <<"X">>)
    /\ LeadDigits(Tail(AfterDigits(s))) # <<>>

D1(s) == LeadDigits(s)
D2(s) == LeadDigits(Tail(AfterDigits(s)))
Rest(s) == AfterDigits(Tail(AfterDigits(s)))

-----------------------------------------------------------------------------
(* Properties of the loops of test_parse_lists (SpecLists, SpecBraces) *)

Separators == {",", " "}

\* s is a sequence of digit runs of 1 to 4 digits, each followed by a separator
RECURSIVE IsRunList(_)
IsRunList(s) ==
    \/ s = <<>>
    \/ /\ Len(LeadDigits(s)) \in 1..4
       /\ AfterDigits(s) # <<>>
       /\ Head(AfterDigits(s)) \in Separators
       /\ IsRunList(Tail(AfterDigits(s)))

\* the digit runs of such a sequence, in order
RECURSIVE RunsOf(_)
RunsOf(s) ==
    IF s = <<>> THEN <<>> ELSE <<StrVal(LeadDigits(s))>> \o RunsOf(Tail(AfterDigits(s)))

IsDigitRun(v) == v.t = "str" /\ v.v # <<>> /\ \A k \in 1..Len(v.v) : is_ascii_digit(v.v[k])

ListsReturned == pc = "chain" /\ lastop = "parse_struct_vec_to"

RECURSIVE IsCommaList(_)
IsCommaList(s) ==
    \/ s = <<>>
    \/ /\ LeadDigits(s) # <<>>
       /\ HasPrefix(AfterDigits(s), <<",">>)
       /\ IsCommaList(Tail(AfterDigits(s)))

\* the numbers of such a sequence, in order
RECURSIVE NumbersOf(_)
NumbersOf(s) ==
    IF s = <<>> THEN <<>>
    ELSE <<IntVal(DigitsVal(LeadDigits(s), 0))>> \o NumbersOf(Tail(AfterDigits(s)))

\* the text between the braces of s = "{" .. "}"
Inside(s) == SubSeq(s, 2, Len(s) - 1)

IsBracedList(s) ==
    /\ Len(s) >= 2 /\ Head(s) = "{" /\ s[Len(s)] = "}"
    /\ IsCommaList(Inside(s))

BracesValidated == lastop = "validate"

-----------------------------------------------------------------------------
(* Properties of the conversion steps and of the capture (SpecTuple, Spec) *)

\* the args of an error as a text; every args of the program is the literal ""
ArgsText(e) == IF e.args = "" THEN <<>> ELSE e.args

\* the text the cursor captures, the cursor holding a text
Captured(cur) == get_selection(cur).v

\* C21 (as claimed): when parse_selection::<T> cannot convert the captured text
\* it fails with NoMatch, action "parse", whose args is the captured text; when
\* it can, it returns the cursor as it was, followed by the earlier values and
\* the converted value.
C21_ParseFailureNamesCapture ==
    (lastop = "parse_selection" /\ c.cur # None)
    => IF from_str("int", Captured(c)).tag = "Ok"
       THEN /\ out.tag = "Ok" /\ out.v.c = c
            /\ vals # <<>> /\ out.v.vals = vals
            /\ vals[Len(vals)] = from_str("int", Captured(c)).v
       ELSE /\ out.tag = "Err" /\ out.e.tag = "NoMatch" /\ out.e.action = "parse"
            /\ ArgsText(out.e) = Captured(c)

CaptureReads == {"get_selection", "parse_selection_as_str"}

\* C22 (as claimed): reading the capture of a cursor that holds no text fails
\* with NoMatch, action "str on erroring cursor" and empty args, whatever error
\* the cursor stores.
C22_CaptureReadReportsStr ==
    (lastop \in CaptureReads /\ c.cur = None)
    => out = Err(NoMatch("str on erroring cursor", ""))

\* C22 (amended): reading the capture of a cursor that holds no text fails with
\* a clone of the error the cursor stores: a NoMatch with its action and args,
\* a Fatal without its cause.
C22_CaptureReadReportsStoredError ==
    (lastop \in CaptureReads /\ c.cur = None)
    => /\ c.err # None /\ out.tag = "Err"
       /\ out.e.tag = c.err[1].tag
       /\ out.e.action = c.err[1].action /\ out.e.args = c.err[1].args
       /\ out.e.tag = "Fatal" => out.e.cause = "none"

\* C22 witness: get_selection on a cursor that stores the NoMatch of a failed
\* text() returns that NoMatch.
C22_Witness ==
    /\ lastop = "get_selection" /\ c.cur = None
    /\ c.err = Some(NoMatch("text", "")) /\ out = Err(NoMatch("text", ""))

\* a step in which a matcher replaced the text of a cursor whose selection is
\* an explicit window
MatcherMovedWindow ==
    /\ c.cur # None /\ c.selection.kind = "Start"
    /\ lastop' \in MatcherOps /\ c'.cur # None

ConsumedSoFar == TakeChars(buf, Len(buf) - Len(Txt(c)))

Conversions == {"parse_selection", "parse_selection_as_str"}

\* the value a conversion step named op makes of the capture of cur
Converted(op, cur) ==
    IF op = "parse_selection" THEN from_str("int", Captured(cur)).v
    ELSE StrVal(Captured(cur))

\* C25: on the cursor and on the tuples of 1 to 4 values a conversion step that
\* succeeds appends its value as the last element and leaves the cursor, the
\* earlier values and their order as they were; every other step (matchers,
\* set_error, selection_start, selection_end, validate) leaves the values as
\* they were, and validate returns the cursor with the same values.
C25_TupleAccumulation ==
    [][/\ (lastop' \in Conversions /\ out'.tag = "Ok")
          => /\ c' = c /\ out'.v = Tuple(c, vals')
             /\ Len(vals') = Len(vals) + 1
             /\ SubSeq(vals', 1, Len(vals)) = vals
             /\ vals'[Len(vals')] = Converted(lastop', c)
       /\ ~(lastop' \in Conversions /\ out'.tag = "Ok") => vals' = vals
       /\ (lastop' = "validate" /\ c.err = None /\ vals # <<>>)
          => out' = Ok(Tuple(c, vals))]_vars

\* C25 witness: a matcher succeeded on a tuple of four values, the first of
\* them not equal to the last.
C25_Witness ==
    /\ Len(vals) = 4 /\ vals[1] # vals[4] /\ lastop = "text" /\ c.cur # None

-----------------------------------------------------------------------------
(* select and the hand-paired capture calls (Spec) *)

\* selection_start() -> p -> selection_end(), p having returned the cursor t
\* from the cursor selection_start() gave it
HandPaired(t) == selection_end(t)

\* C27 (as claimed): select(p) on a cursor without error gives the remaining
\* text, the capture and the stored error of selection_start() -> p ->
\* selection_end().
C27_SelectIsHandPaired ==
    (lastop = "select" /\ sub # None)
        => /\ c.cur = HandPaired(sub[1]).cur
           /\ get_selection(c) = get_selection(HandPaired(sub[1]))
           /\ c.err = HandPaired(sub[1]).err

-----------------------------------------------------------------------------
(* The references of the capture (Spec) *)

\* the begin reference of the capture of a cursor without error
Begin(cur) == selection(cur.selection, cur.cur[1])[1]

\* its end reference: the stored end of a closed window, else the remaining text
End(cur) == selection(cur.selection, cur.cur[1])[2]

\* C28: in every state of a cursor without error the begin reference and the
\* remaining text are suffixes of the buffer, the begin reference is at least as
\* long as the remaining text and as the end reference, and get_selection
\* returns a text (its subtraction of lengths does not underflow); every step
\* between two cursors without error leaves a suffix of the remaining text.
C28_CaptureReferences ==
    /\ [](c.cur # None =>
            /\ IsSuffix(Begin(c), buf)
            /\ IsSuffix(c.cur[1], buf)
            /\ IsSuffix(c.cur[1], Begin(c))
            /\ IsSuffix(End(c), Begin(c))
            /\ ByteLen(Begin(c)) >= ByteLen(End(c))
            /\ get_selection(c).tag = "Ok")
    /\ [][(c.cur # None /\ c'.cur # None) => IsSuffix(c'.cur[1], c.cur[1])]_vars

\* a closed window the cursor has moved beyond: begin, end and remaining text
\* are three different suffixes of the buffer
C28_Witness ==
    /\ c.cur # None /\ c.selection.kind = "Start" /\ c.selection.e # None
    /\ Len(c.cur[1]) < Len(End(c))
    /\ Len(End(c)) < Len(Begin(c))
    /\ lastop \in MatcherOps

\* C29 (as claimed): after select(p) succeeds the capture is the text consumed
\* by the whole of p, also when p holds a nested select or a selection_start() /
\* selection_end() pair after having consumed text.
C29_SelectCapturesAllOfP ==
    [][(pc = "chain" /\ lastop' = "select" /\ c.cur # None /\ c'.cur # None)
        => get_selection(c') = Ok(Dropped(c, c'))]_vars

-----------------------------------------------------------------------------
(* Properties of the chain of parse_time_v1 (SpecTime) *)

\* C26 (as claimed): no step of a chain of matchers, parse_selection and bind
\* aborts the program; the chain ends with a value or with a ParseError, also
\* when the input does not match.
C26_ChainNeverAborts == out.tag # "Panic"

-----------------------------------------------------------------------------
(* Properties of the steps that run a text sub-parser (SpecSub) *)

\* C30 (as claimed): parse_struct_str, parse_with, parse_put and parse_to_opt
\* return, on success, a cursor whose remaining text is the remaining text the
\* sub-parser returned.
C30_ContinuesAfterSubParser ==
    [][(pc = "chain" /\ lastop' \in SubOps /\ out'.tag = "Ok")
        => c'.cur = Some(item(Txt(c)).v.s)]_vars

\* the steps that extract or convert: they return a Result
ExtractionOps == SubOps \cup {"validate", "parse_selection", "parse_selection_as_str"}

\* C31 (as claimed): every extraction or conversion step applied to a cursor
\* that stores a Fatal error fails with a Fatal error, never with a recoverable
\* NoMatch.
C31_FatalSurfacesAsFatal ==
    (lastop \in ExtractionOps /\ IsFatal(c.err)) => (out.tag = "Err" /\ out.e.tag = "Fatal")

-----------------------------------------------------------------------------
(* Termination of the collection loops (SpecIdle) *)

\* C32 (as claimed): parse_struct_vec and parse_struct_vec_to end on every text
\* and every sub-parser, one that succeeds without consuming text included:
\* every pass that does not return collects an element, and the number of
\* elements collected never exceeds the length of the text.
C32_VecLoopBoundedByInput == pc = "vec" => Len(loop.vec) <= Len(buf)

=============================================================================
